---- MODULE Spec2Model ----
(***************************************************************************)
(* A model of the blackjack engine of src/src/Blackjack/Blackjack.ts       *)
(* (class BlackjackGame) and of a caller that holds the snapshots          *)
(* getState() returns.                                                     *)
(*                                                                         *)
(* The engine is single-threaded and synchronous: every public method is   *)
(* one action.  A method that draws cards has one outcome per order the    *)
(* shuffle may have left the shoe in, so each method is an operator from   *)
(* the engine's state to the SET of states it may return in.  A thrown     *)
(* Error is the field err of the state the method leaves behind: the       *)
(* assignments made before the throw stay made.                            *)
(***************************************************************************)
EXTENDS Integers, Sequences, FiniteSets, TLC

VARIABLES
    deck,             \* this.deck: how many cards of each rank are left in it
    playerHands,      \* this.playerHands
    dealerHand,       \* this.dealerHand
    activeHandIndex,  \* this.activeHandIndex (0-based, as in the source)
    phase,            \* this.phase
    options,          \* this.options
    lastCall,         \* the caller's last call: [op |-> ..., arg |-> ...]
    err,              \* what that call threw ("none": it returned; "running":
                      \* it is in resolveDealerTurn's loop)
    snap,             \* the snapshot the caller holds (the last getState() result);
                      \* the caller drops it when the shoe it shows is discarded
    hvIn,             \* argument of a direct call of getHandValue
    hvOut,            \* its result (<< >>: not called yet)
    phaseTrace,       \* the values that call assigned to this.phase, in order
    shuffles          \* Math.random as shuffle sees it: the orders it may leave a
                      \* shoe in ("sampled": many, followed for their first
                      \* cards; "stacked": one, followed to its last card)

engineVars == <<deck, playerHands, dealerHand, activeHandIndex, phase, options>>
vars == <<deck, playerHands, dealerHand, activeHandIndex, phase, options,
          lastCall, err, snap, hvIn, hvOut, phaseTrace, shuffles>>

----------------------------------------------------------------------------
(* Bounds of the model *)

\* numberOfDecks is drawn from 1..MaxDecks
MaxDecks == 1
\* startRound's betAmount is drawn from -1..MaxBet
\* and doubleDown is not called again on a bet doubled beyond it
MaxBet == 1
\* the sampled shuffles are explored up to the first MaxDealt cards of a shoe
MaxDealt == 8
\* getHandValue is called directly on every hand of at most MaxHandLen cards
MaxHandLen == 3
\* ... and only those whose first MaxDealt cards are of at most MaxKinds ranks,
MaxKinds == 2
\* taken among these (ace, six, nine, ten, king)
DealtRanks == {1, 6, 9, 10, 13}
\* The stacked shoe, of a single pack, explored to its last card.  The ranks
\* in the order pop() returns them: eight rounds that the dealer ends
\* with two or three cards if the player stands at once (34 cards), then the
\* 18 cards of a round in which two splits make the hands [2,A], [2,4] and
\* [2,2], seven hits of the first and three of the second take the last card,
\* and the dealer holds 16.
StackedShoe ==
    << 13, 7, 13, 7,     13, 8, 13, 8,     12, 8, 12, 8,     12, 9, 12, 9,
       11, 5, 11, 7,     11, 5, 11, 9,     10, 5, 10, 6, 5,  10, 6, 10, 6, 6,
       2, 2, 9, 7,       2, 2,     1, 4,
       1, 1, 1, 3, 3, 3, 3,        4, 4, 4 >>

----------------------------------------------------------------------------
(* Types and enums *)

NumRanks == 13
NumSuits == 4
PackSize == 52
Ranks == 1..NumRanks

GamePhase == {"BETTING", "PLAYER_TURN", "DEALER_TURN", "ROUND_OVER"}
HandStatus == {"ACTIVE", "STOOD", "BUST", "BLACKJACK"}
HandResult == {"PENDING", "PLAYER_WINS", "DEALER_WINS", "PUSH"}
PlayerAction == {"HIT", "STAND", "DOUBLE_DOWN", "SPLIT", "INSURANCE"}

\* A card object.  id is the object's identity (the k-th card of rank r of the
\* shoe), which no assignment to its fields changes.
Card(r, k) == [id |-> <<r, k>>, rank |-> r, suit |-> (k - 1) % NumSuits]

NoCard == [id |-> <<0, 0>>, rank |-> 0, suit |-> 0]

DefaultOptions == [numberOfDecks |-> 4, dealerHitsOnSoft17 |-> TRUE]

----------------------------------------------------------------------------
(* Sequence helpers *)

RECURSIVE SumRanks(_, _)
SumRanks(d, r) == IF r = 0 THEN 0 ELSE d[r] + SumRanks(d, r - 1)

\* this.deck.length
DeckLength(d) == SumRanks(d, NumRanks)

\* Array.prototype.pop on a non-empty array: the array without its last element
Pop(seq) == SubSeq(seq, 1, Len(seq) - 1)

\* mutant: push instead of splice
Splice_AtEnd(seq, at, x) == Append(seq, x)

\* Array.prototype.splice(at, 0, x), at 0-based
Splice(seq, at, x) == SubSeq(seq, 1, at) \o <<x>> \o SubSeq(seq, at + 1, Len(seq))

----------------------------------------------------------------------------
(* Static helper: getHandValue *)

RECURSIVE SumLoop(_, _, _, _)
\* the for loop of getHandValue: [sum, aceCount] after cards i..Len(hand)
SumLoop(hand, i, sum, aceCount) ==
    IF i > Len(hand) THEN [sum |-> sum, aceCount |-> aceCount]
    ELSE IF hand[i].rank > 10 THEN SumLoop(hand, i + 1, sum + 10, aceCount)
    ELSE IF hand[i].rank = 1 THEN SumLoop(hand, i + 1, sum + 11, aceCount + 1)
    ELSE SumLoop(hand, i + 1, sum + hand[i].rank, aceCount)

RECURSIVE DemoteLoop(_, _)
\* the while loop of getHandValue
DemoteLoop(sum, aceCount) ==
    IF sum > 21 /\ aceCount > 0 THEN DemoteLoop(sum - 10, aceCount - 1)
    ELSE [sum |-> sum, aceCount |-> aceCount]

IsSoft(sum, aceCount) == aceCount > 0 /\ sum + 10 * aceCount <= 21

getHandValue(hand) ==
    IF Len(hand) = 0 THEN [value |-> 0, isSoft |-> FALSE]
    ELSE LET a == SumLoop(hand, 1, 0, 0)
             b == DemoteLoop(a.sum, a.aceCount)
         IN [value |-> b.sum, isSoft |-> IsSoft(b.sum, b.aceCount)]

----------------------------------------------------------------------------
(* The shoe *)

\* createNewDeck: numberOfDecks packs of 4 suits of 13 ranks, shuffled.  The
\* order of the shoe is read by pop() alone, so the model keeps the number of
\* cards left of each rank and lets dealCard choose which card is last.
createNewDeck(opts) == [r \in Ranks |-> NumSuits * opts.numberOfDecks]

\* the cards dealt from the shoe since createNewDeck
Dealt(s) == DeckLength(createNewDeck(s.options)) - DeckLength(s.deck)

\* the ranks dealt from the shoe since createNewDeck
Kinds(s) == {r \in Ranks : s.deck[r] < NumSuits * s.options.numberOfDecks}

\* shuffle: any card still in the shoe may be its last element.  The ranks
\* that may be there in the shuffles explored.
shuffle(s) ==
    IF s.shuffles = "stacked"
    THEN {r \in Ranks : /\ Dealt(s) < Len(StackedShoe)
                        /\ r = StackedShoe[Dealt(s) + 1]}
    ELSE {r \in DealtRanks : /\ s.deck[r] > 0
                             /\ Dealt(s) < MaxDealt
                             /\ Cardinality(Kinds(s) \cup {r}) <= MaxKinds}

Throw(s, e) == [s EXCEPT !.err = e]

\* dealCard: the outcomes [s, card] of one call.  A call made after a throw
\* is not made: the error propagates.
dealCard(s) ==
    IF s.err # "none" THEN {[s |-> s, card |-> NoCard]}
    ELSE IF DeckLength(s.deck) = 0
    THEN {[s |-> Throw(s, "Deck is empty."), card |-> NoCard]}
    ELSE {[s |-> [s EXCEPT !.deck[r] = @ - 1], card |-> Card(r, s.deck[r])] :
            r \in shuffle(s)}

----------------------------------------------------------------------------
(* Legal actions *)

getActiveHand(s) == s.playerHands[s.activeHandIndex + 1]

\* mutant: the face cards are compared by rank
SplitValue_ByRank(card) == card.rank

SplitValue(card) == IF card.rank > 9 THEN 10 ELSE card.rank

canSplit(hand) ==
    IF Len(hand.cards) # 2 THEN FALSE
    ELSE SplitValue(hand.cards[1]) = SplitValue(hand.cards[2])

getAvailableActions(s) ==
    IF s.phase # "PLAYER_TURN" THEN {}
    ELSE LET activeHand == getActiveHand(s)
             isFirstTurn == Len(activeHand.cards) = 2
         IN {"HIT", "STAND"}
            \cup (IF isFirstTurn THEN {"DOUBLE_DOWN"} ELSE {})
            \cup (IF isFirstTurn /\ canSplit(activeHand) THEN {"SPLIT"} ELSE {})

\* mutant: the hand's qualification for a double down is not looked at
canPerformAction_AnyHand(s, action) ==
    \/ action \in getAvailableActions(s)
    \/ (s.phase = "PLAYER_TURN" /\ action = "DOUBLE_DOWN")

canPerformAction(s, action) == action \in getAvailableActions(s)

----------------------------------------------------------------------------
(* Settlement and the dealer *)

\* mutant: a bust hand is compared with the dealer like any other
HandOutcome_BustCompared(hand, dealerValue, dealerHasBlackjack) ==
    IF hand.status = "BLACKJACK"
    THEN (IF dealerHasBlackjack THEN "PUSH" ELSE "PLAYER_WINS")
    ELSE LET playerValue == getHandValue(hand.cards).value
         IN IF dealerValue > 21 \/ playerValue > dealerValue THEN "PLAYER_WINS"
            ELSE IF playerValue < dealerValue THEN "DEALER_WINS"
            ELSE "PUSH"

\* this.phase = p
SetPhase(s, p) == [s EXCEPT !.phase = p, !.phaseTrace = Append(@, p)]

\* the body of evaluateResults' loop: the result of one hand
HandOutcome(hand, dealerValue, dealerHasBlackjack) ==
    IF hand.status = "BUST" THEN "DEALER_WINS"
    ELSE IF hand.status = "BLACKJACK"
    THEN (IF dealerHasBlackjack THEN "PUSH" ELSE "PLAYER_WINS")
    ELSE LET playerValue == getHandValue(hand.cards).value
         IN IF dealerValue > 21 \/ playerValue > dealerValue THEN "PLAYER_WINS"
            ELSE IF playerValue < dealerValue THEN "DEALER_WINS"
            ELSE "PUSH"

evaluateResults(s) ==
    LET dealerValue == getHandValue(s.dealerHand).value
        dealerHasBlackjack == dealerValue = 21 /\ Len(s.dealerHand) = 2
    IN SetPhase(
         [s EXCEPT
            !.playerHands = [i \in 1..Len(s.playerHands) |->
                [s.playerHands[i] EXCEPT
                   !.result = HandOutcome(s.playerHands[i], dealerValue,
                                          dealerHasBlackjack)]]],
         "ROUND_OVER")

\* mutant: the dealer stands on 16
DealerDraws_Below16(dealerValue, opts) ==
    \/ dealerValue.value < 16
    \/ (dealerValue.value = 17 /\ dealerValue.isSoft /\ opts.dealerHitsOnSoft17)

\* the condition of resolveDealerTurn's while loop
DealerDraws(dealerValue, opts) ==
    \/ dealerValue.value < 17
    \/ (dealerValue.value = 17 /\ dealerValue.isSoft /\ opts.dealerHitsOnSoft17)

\* the body of the loop: this.dealerHand.push(this.dealCard())
DealerIteration(s) ==
    {IF d.s.err # "none" THEN d.s
     ELSE [d.s EXCEPT !.dealerHand = Append(@, d.card)] :
       d \in dealCard(s)}

\* one test of the loop's condition and what it leads to: the body, or the
\* statement after the loop
DealerStep(s) ==
    IF DealerDraws(getHandValue(s.dealerHand), s.options)
    THEN DealerIteration(s)
    ELSE {evaluateResults(s)}

\* the loop and evaluateResults().  Followed as a whole when s.atomic; left
\* at its entry, the call still "running", when the loop is followed one
\* test at a time.
RECURSIVE DealerLoop(_)
DealerLoop(s) ==
    IF s.err # "none" THEN {s}
    ELSE IF ~s.atomic THEN {[s EXCEPT !.err = "running"]}
    ELSE IF DealerDraws(getHandValue(s.dealerHand), s.options)
    THEN UNION {DealerLoop(t) : t \in DealerIteration(s)}
    ELSE {evaluateResults(s)}

\* mutant: the dealer is resolved without the phase DEALER_TURN
resolveDealerTurn_NoPhase(s) == DealerLoop(s)

resolveDealerTurn(s) == DealerLoop(SetPhase(s, "DEALER_TURN"))

\* mutant: the last ACTIVE hand after the active one, not the first
NextActiveHandIndex_Last(s) ==
    LET later == {i \in 0..(Len(s.playerHands) - 1) :
                     i > s.activeHandIndex /\ s.playerHands[i + 1].status = "ACTIVE"}
    IN IF later = {} THEN -1 ELSE CHOOSE i \in later : \A j \in later : i >= j

\* findIndex over the hands after the active one; 0-based, -1 if none
NextActiveHandIndex(s) ==
    LET later == {i \in 0..(Len(s.playerHands) - 1) :
                     i > s.activeHandIndex /\ s.playerHands[i + 1].status = "ACTIVE"}
    IN IF later = {} THEN -1 ELSE CHOOSE i \in later : \A j \in later : i <= j

moveToNextHandOrResolve(s) ==
    LET nextActiveHandIndex == NextActiveHandIndex(s)
    IN IF nextActiveHandIndex # -1
       THEN {[s EXCEPT !.activeHandIndex = nextActiveHandIndex]}
       ELSE resolveDealerTurn(s)

----------------------------------------------------------------------------
(* Public methods.  s is the engine's state with the field err. *)

resetGame(s) ==
    SetPhase([s EXCEPT !.deck = createNewDeck(s.options),
                       !.playerHands = << >>,
                       !.dealerHand = << >>,
                       !.activeHandIndex = 0],
             "BETTING")

\* mutant: the shoe is rebuilt below half of its cards
BelowReshuffleThreshold_Half(s) ==
    DeckLength(s.deck) * 2 < s.options.numberOfDecks * PackSize

\* deck.length < (numberOfDecks * 52) / 3, the division being exact
BelowReshuffleThreshold(s) ==
    DeckLength(s.deck) * 3 < s.options.numberOfDecks * PackSize

NewHand(cards, bet) ==
    [cards |-> cards, bet |-> bet, status |-> "ACTIVE", result |-> "PENDING"]

\* mutant: a bet of zero is accepted
InvalidBet_Negative(betAmount) == betAmount < 0

\* startRound's check of its argument
InvalidBet(betAmount) == betAmount <= 0

\* [this.dealCard(), this.dealCard()]: outcomes [s, cards]
DealTwo(s) ==
    UNION {{[s |-> e.s, cards |-> <<d.card, e.card>>] : e \in dealCard(d.s)} :
             d \in dealCard(s)}

\* mutant: the dealer is not resolved after a natural blackjack
CheckBlackjack_NoResolve(s) ==
    IF getHandValue(s.playerHands[1].cards).value = 21
    THEN {[s EXCEPT !.playerHands[1].status = "BLACKJACK"]}
    ELSE {s}

\* startRound from the initial blackjack check on
CheckBlackjack(s) ==
    IF getHandValue(s.playerHands[1].cards).value = 21
    THEN resolveDealerTurn([s EXCEPT !.playerHands[1].status = "BLACKJACK"])
    ELSE {s}

startRound(s, betAmount) ==
    IF s.phase # "BETTING" /\ s.phase # "ROUND_OVER" THEN {s}
    ELSE IF InvalidBet(betAmount) THEN {Throw(s, "Bet amount must be positive.")}
    ELSE LET s0 == IF BelowReshuffleThreshold(s)
                   THEN [s EXCEPT !.deck = createNewDeck(s.options)]
                   ELSE s
         IN UNION {
              IF p.s.err # "none" THEN {p.s}
              ELSE LET s1 == [p.s EXCEPT
                                !.playerHands = <<NewHand(p.cards, betAmount)>>]
                   IN UNION {
                        IF q.s.err # "none" THEN {q.s}
                        ELSE CheckBlackjack(
                               SetPhase([q.s EXCEPT !.dealerHand = q.cards,
                                                    !.activeHandIndex = 0],
                                        "PLAYER_TURN")) :
                        q \in DealTwo(s1)} :
              p \in DealTwo(s0)}

\* activeHand.cards.push(this.dealCard()): outcomes (states)
PushDealt(s) ==
    {IF d.s.err # "none" THEN d.s
     ELSE [d.s EXCEPT !.playerHands[s.activeHandIndex + 1].cards =
                         Append(@, d.card)] :
       d \in dealCard(s)}

hit(s) ==
    IF ~canPerformAction(s, "HIT") THEN {s}
    ELSE UNION {
           IF t.err # "none" THEN {t}
           ELSE IF getHandValue(getActiveHand(t).cards).value > 21
           THEN moveToNextHandOrResolve(
                  [t EXCEPT !.playerHands[t.activeHandIndex + 1].status = "BUST"])
           ELSE {t} :
           t \in PushDealt(s)}

stand(s) ==
    IF ~canPerformAction(s, "STAND") THEN {s}
    ELSE moveToNextHandOrResolve(
           [s EXCEPT !.playerHands[s.activeHandIndex + 1].status = "STOOD"])

\* mutant: a hand that is not bust stays ACTIVE after a double down
StatusAfterDouble_Active(hand) ==
    IF getHandValue(hand.cards).value > 21 THEN "BUST" ELSE "ACTIVE"

\* the status doubleDown assigns once the card is pushed
StatusAfterDouble(hand) ==
    IF getHandValue(hand.cards).value > 21 THEN "BUST" ELSE "STOOD"

doubleDown(s) ==
    IF ~canPerformAction(s, "DOUBLE_DOWN") THEN {s}
    ELSE LET s1 == [s EXCEPT !.playerHands[s.activeHandIndex + 1].bet = @ * 2]
         IN UNION {
              IF t.err # "none" THEN {t}
              ELSE moveToNextHandOrResolve(
                     [t EXCEPT !.playerHands[t.activeHandIndex + 1].status =
                         StatusAfterDouble(getActiveHand(t))]) :
              t \in PushDealt(s1)}

\* mutant: a 21 made by a split is a blackjack
StatusAfterSplit_Blackjack(hand) ==
    IF getHandValue(hand.cards).value = 21 THEN "BLACKJACK" ELSE hand.status

\* split's last statement: a 21 made by a split is an ordinary 21
StatusAfterSplit(hand) ==
    IF getHandValue(hand.cards).value = 21 THEN "STOOD" ELSE hand.status

split(s) ==
    IF ~canPerformAction(s, "SPLIT") THEN {s}
    ELSE LET a == s.activeHandIndex + 1
             activeHand == getActiveHand(s)
             popped == activeHand.cards[Len(activeHand.cards)]
             s1 == [s EXCEPT !.playerHands[a].cards = Pop(@)]
         IN UNION {
              IF t.err # "none" THEN {t}
              ELSE {IF d.s.err # "none" THEN d.s
                    ELSE LET newHand == NewHand(<<popped, d.card>>, activeHand.bet)
                             s2 == [d.s EXCEPT !.playerHands =
                                       Splice(@, d.s.activeHandIndex + 1, newHand)]
                         IN [s2 EXCEPT !.playerHands[a].status =
                                          StatusAfterSplit(s2.playerHands[a])] :
                      d \in dealCard(t)} :
              t \in PushDealt(s1)}

----------------------------------------------------------------------------
(* getState and the caller's snapshot *)

\* JSON.parse(JSON.stringify(card)): a new object with the same fields.  Its
\* identity is one no card of the engine has.
CopyCard(c) == [c EXCEPT !.id = <<0 - c.id[1], c.id[2]>>]

\* JSON.parse(JSON.stringify(this.playerHands))
DeepCopy(hands) ==
    [i \in 1..Len(hands) |->
       [hands[i] EXCEPT !.cards = [j \in 1..Len(hands[i].cards) |->
                                     CopyCard(hands[i].cards[j])]]]

\* [this.dealerHand[0]] or [...this.dealerHand]: a new array of the SAME objects
DealerView(s) ==
    IF s.phase = "PLAYER_TURN" THEN SubSeq(s.dealerHand, 1, 1) ELSE s.dealerHand

\* getState: [err, state].  this.dealerHand[0] is undefined when the dealer has
\* no card, and getHandValue([undefined]) reads undefined.rank: a TypeError.
getState(s) ==
    IF Len(s.dealerHand) = 0
    THEN [err |-> "TypeError", state |-> << >>]
    ELSE [err |-> "none",
          state |-> <<[deckSize |-> DeckLength(s.deck),
                       playerHands |-> DeepCopy(s.playerHands),
                       dealerHand |-> DealerView(s),
                       activeHandIndex |-> s.activeHandIndex,
                       phase |-> s.phase,
                       dealerUpCardValue |->
                           getHandValue(SubSeq(s.dealerHand, 1, 1)).value,
                       availableActions |-> getAvailableActions(s)]>>]

\* rank := r on the object id, seen through every reference to that object
WriteCards(cards, id, r) ==
    [j \in 1..Len(cards) |->
       IF cards[j].id = id THEN [cards[j] EXCEPT !.rank = r] ELSE cards[j]]

WriteHands(hands, id, r) ==
    [i \in 1..Len(hands) |->
       [hands[i] EXCEPT !.cards = WriteCards(hands[i].cards, id, r)]]

\* The card objects reachable from a snapshot
SnapCards(st) ==
    {st.dealerHand[j] : j \in 1..Len(st.dealerHand)}
    \cup UNION {{st.playerHands[i].cards[j] :
                   j \in 1..Len(st.playerHands[i].cards)} :
                i \in 1..Len(st.playerHands)}

----------------------------------------------------------------------------
(* The state machine *)

Engine ==
    [deck |-> deck, playerHands |-> playerHands, dealerHand |-> dealerHand,
     activeHandIndex |-> activeHandIndex, phase |-> phase, options |-> options,
     err |-> "none", phaseTrace |-> << >>, shuffles |-> shuffles,
     atomic |-> TRUE]

\* the engine is left in state t, the call having thrown t.err
Becomes(t) ==
    /\ deck' = t.deck
    /\ playerHands' = t.playerHands
    /\ dealerHand' = t.dealerHand
    /\ activeHandIndex' = t.activeHandIndex
    /\ phase' = t.phase
    /\ options' = t.options
    /\ err' = t.err
    /\ phaseTrace' = t.phaseTrace

Call(op, arg) == lastCall' = [op |-> op, arg |-> arg]

\* constructor: the supplied options over the defaults, then resetGame()
constructor(supplied) ==
    LET opts == [k \in DOMAIN DefaultOptions |->
                   IF k \in DOMAIN supplied THEN supplied[k] ELSE DefaultOptions[k]]
    IN resetGame([deck |-> << >>, playerHands |-> << >>, dealerHand |-> << >>,
                  activeHandIndex |-> 0, phase |-> "BETTING", options |-> opts,
                  err |-> "none", phaseTrace |-> << >>])

SuppliedOptions ==
    {[numberOfDecks |-> n, dealerHitsOnSoft17 |-> b] :
        n \in 1..MaxDecks, b \in BOOLEAN}

InitEngine(supplied) ==
    LET g == constructor(supplied)
    IN /\ deck = g.deck
       /\ playerHands = g.playerHands
       /\ dealerHand = g.dealerHand
       /\ activeHandIndex = g.activeHandIndex
       /\ phase = g.phase
       /\ options = g.options
       /\ err = "none"
       /\ phaseTrace = g.phaseTrace
       /\ lastCall = [op |-> "constructor", arg |-> 0]
       /\ snap = << >>

Init ==
    /\ \E supplied \in SuppliedOptions : InitEngine(supplied)
    /\ hvIn = << >>
    /\ hvOut = << >>
    /\ shuffles = "sampled"

ResetGame ==
    /\ Becomes(resetGame(Engine))
    /\ Call("resetGame", 0)
    /\ snap' = << >>
    /\ UNCHANGED <<hvIn, hvOut, shuffles>>

Starts(betAmount) == phase \in {"BETTING", "ROUND_OVER"} /\ betAmount > 0

StartRound ==
    \E betAmount \in (0 - 1)..MaxBet :
       /\ \E t \in startRound(Engine, betAmount) : Becomes(t)
       /\ Call("startRound", betAmount)
       /\ snap' = IF Starts(betAmount) /\ BelowReshuffleThreshold(Engine)
                  THEN << >> ELSE snap
       /\ UNCHANGED <<hvIn, hvOut, shuffles>>

Hit ==
    /\ \E t \in hit(Engine) : Becomes(t)
    /\ Call("hit", 0)
    /\ UNCHANGED <<snap, hvIn, hvOut, shuffles>>

Stand ==
    /\ \E t \in stand(Engine) : Becomes(t)
    /\ Call("stand", 0)
    /\ UNCHANGED <<snap, hvIn, hvOut, shuffles>>

DoubleDown ==
    /\ phase = "PLAYER_TURN" => getActiveHand(Engine).bet <= MaxBet
    /\ \E t \in doubleDown(Engine) : Becomes(t)
    /\ Call("doubleDown", 0)
    /\ UNCHANGED <<snap, hvIn, hvOut, shuffles>>

Split ==
    /\ \E t \in split(Engine) : Becomes(t)
    /\ Call("split", 0)
    /\ UNCHANGED <<snap, hvIn, hvOut, shuffles>>

Next == ResetGame \/ StartRound \/ Hit \/ Stand \/ DoubleDown \/ Split

Spec == Init /\ [][Next]_vars

----------------------------------------------------------------------------
(* The engine on the stacked shoe *)

\* the stacked shoe is a single pack
InitStacked ==
    /\ \E b \in BOOLEAN :
          InitEngine([numberOfDecks |-> 1, dealerHitsOnSoft17 |-> b])
    /\ hvIn = << >>
    /\ hvOut = << >>
    /\ shuffles = "stacked"

SpecStacked == InitStacked /\ [][Next]_vars

----------------------------------------------------------------------------
(* The engine on the stacked shoe, resolveDealerTurn's loop followed one test
   of its condition at a time.  The loop is synchronous: from its entry to
   its exit the engine runs nothing else, and no method is called. *)

EngineStepwise == [Engine EXCEPT !.atomic = FALSE]

Returned == err # "running"

ResetGameCall ==
    /\ Returned
    /\ Becomes(resetGame(EngineStepwise))
    /\ Call("resetGame", 0)
    /\ snap' = << >>
    /\ UNCHANGED <<hvIn, hvOut, shuffles>>

StartRoundCall ==
    /\ Returned
    /\ \E betAmount \in (0 - 1)..MaxBet :
          /\ \E t \in startRound(EngineStepwise, betAmount) : Becomes(t)
          /\ Call("startRound", betAmount)
          /\ snap' = IF Starts(betAmount) /\ BelowReshuffleThreshold(Engine)
                     THEN << >> ELSE snap
    /\ UNCHANGED <<hvIn, hvOut, shuffles>>

HitCall ==
    /\ Returned
    /\ \E t \in hit(EngineStepwise) : Becomes(t)
    /\ Call("hit", 0)
    /\ UNCHANGED <<snap, hvIn, hvOut, shuffles>>

StandCall ==
    /\ Returned
    /\ \E t \in stand(EngineStepwise) : Becomes(t)
    /\ Call("stand", 0)
    /\ UNCHANGED <<snap, hvIn, hvOut, shuffles>>

DoubleDownCall ==
    /\ Returned
    /\ phase = "PLAYER_TURN" => getActiveHand(Engine).bet <= MaxBet
    /\ \E t \in doubleDown(EngineStepwise) : Becomes(t)
    /\ Call("doubleDown", 0)
    /\ UNCHANGED <<snap, hvIn, hvOut, shuffles>>

SplitCall ==
    /\ Returned
    /\ \E t \in split(EngineStepwise) : Becomes(t)
    /\ Call("split", 0)
    /\ UNCHANGED <<snap, hvIn, hvOut, shuffles>>

\* the running call tests the loop's condition once more, and draws a card,
\* throws for want of one, or leaves the loop, settles the hands and returns
DealerTurnStep ==
    /\ err = "running"
    /\ \E t \in DealerStep([Engine EXCEPT !.phaseTrace = phaseTrace]) :
          Becomes(IF t.err = "none" /\ t.phase = "DEALER_TURN"
                  THEN [t EXCEPT !.err = "running"]
                  ELSE t)
    /\ UNCHANGED <<lastCall, snap, hvIn, hvOut, shuffles>>

NextStepwise ==
    \/ ResetGameCall \/ StartRoundCall \/ HitCall \/ StandCall
    \/ DoubleDownCall \/ SplitCall \/ DealerTurnStep

\* a call that is running goes on running: the loop takes its next step
SpecStepwise == InitStacked /\ [][NextStepwise]_vars /\ WF_vars(DealerTurnStep)

----------------------------------------------------------------------------
(* getHandValue called directly, as the static helper it is *)

\* every hand of at most MaxHandLen cards, of any ranks
AllHands ==
    UNION {{[i \in 1..n |-> Card(f[i], i)] : f \in [1..n -> Ranks]} :
             n \in 0..MaxHandLen}

InitHandValue ==
    /\ InitEngine(<< >>)
    /\ hvIn \in AllHands
    /\ hvOut = << >>
    /\ shuffles = "sampled"

CallGetHandValue ==
    /\ hvOut = << >>
    /\ hvOut' = <<getHandValue(hvIn)>>
    /\ Call("getHandValue", 0)
    /\ UNCHANGED <<engineVars, err, snap, hvIn, phaseTrace, shuffles>>

SpecHandValue == InitHandValue /\ [][CallGetHandValue]_vars

----------------------------------------------------------------------------
(* The engine with a caller that takes snapshots and writes to them *)

GetState ==
    LET r == getState(Engine)
    IN /\ err' = r.err
       /\ snap' = IF r.err = "none" THEN r.state ELSE snap
       /\ Call("getState", 0)
       /\ UNCHANGED <<engineVars, hvIn, hvOut, phaseTrace, shuffles>>

\* snapshot.<a card>.rank = 5, on any card object the snapshot just taken
\* leads to
WriteSnapshotCard ==
    /\ lastCall.op = "getState" /\ err = "none"
    /\ \E c \in SnapCards(snap[1]) :
          /\ c.rank # 5
          /\ snap' = <<[snap[1] EXCEPT
                          !.playerHands = WriteHands(@, c.id, 5),
                          !.dealerHand = WriteCards(@, c.id, 5)]>>
          /\ playerHands' = WriteHands(playerHands, c.id, 5)
          /\ dealerHand' = WriteCards(dealerHand, c.id, 5)
    /\ Call("write snapshot card", 0)
    /\ err' = "none"
    /\ UNCHANGED <<deck, activeHandIndex, phase, options, hvIn, hvOut, phaseTrace,
                 shuffles>>

\* snapshot.playerHands.length = 0; snapshot.dealerHand.length = 0;
\* snapshot.phase = BETTING
WriteSnapshotArrays ==
    /\ lastCall.op = "getState" /\ err = "none"
    /\ snap' = <<[snap[1] EXCEPT !.playerHands = << >>,
                                 !.dealerHand = << >>,
                                 !.phase = "BETTING"]>>
    /\ Call("write snapshot arrays", 0)
    /\ err' = "none"
    /\ UNCHANGED <<engineVars, hvIn, hvOut, phaseTrace, shuffles>>

\* A caller that deals, stands and resets, and between these calls takes
\* snapshots and writes to them.
NextCaller ==
    \/ ResetGame \/ StartRound \/ Stand
    \/ GetState \/ WriteSnapshotCard \/ WriteSnapshotArrays

InitCaller ==
    /\ InitEngine([numberOfDecks |-> 1])
    /\ hvIn = << >>
    /\ hvOut = << >>
    /\ shuffles = "sampled"

SpecCaller == InitCaller /\ [][NextCaller]_vars

----------------------------------------------------------------------------
(* Properties *)

\* the engine's state after the step
EngineAfter ==
    [deck |-> deck', playerHands |-> playerHands', dealerHand |-> dealerHand',
     activeHandIndex |-> activeHandIndex', phase |-> phase', options |-> options',
     err |-> "none"]

\* the step is a call of the method op
Called(op) == lastCall'.op = op

MethodOf(action) ==
    CASE action = "HIT" -> "hit"
      [] action = "STAND" -> "stand"
      [] action = "DOUBLE_DOWN" -> "doubleDown"
      [] action = "SPLIT" -> "split"

\* C1: a call of hit, stand, doubleDown or split whose action is not in
\* getAvailableActions() throws nothing and leaves the shoe, the player
\* hands, the dealer hand, activeHandIndex and phase as they were.
C1_IllegalActionIsNoOp ==
    [][\A action \in {"HIT", "STAND", "DOUBLE_DOWN", "SPLIT"} :
         (Called(MethodOf(action)) /\ action \notin getAvailableActions(Engine))
            => (UNCHANGED engineVars /\ err' = "none")]_vars

\* C1 witness: doubleDown() was called on a hand of three cards, during the
\* player's turn (a legal doubleDown() ends the turn of its hand, and the
\* hands after it have two cards).
C1_Witness ==
    /\ lastCall.op = "doubleDown"
    /\ phase = "PLAYER_TURN"
    /\ Len(getActiveHand(Engine).cards) = 3
    /\ err = "none"

\* The reference hand value of the specification: tens and faces count 10,
\* aces 11, an ace is demoted to 1 while the total exceeds 21; the hand is soft
\* iff an ace still counts 11 and the total is at most 21.
RefHandValue(hand) ==
    LET a == SumLoop(hand, 1, 0, 0)
        b == DemoteLoop(a.sum, a.aceCount)
    IN [value |-> b.sum, isSoft |-> b.aceCount > 0 /\ b.sum <= 21]

\* C2 (as claimed): getHandValue returns the reference result on every hand;
\* [A,K] is {21, soft}, [A,A] is {12, soft}, [10,9,5] is {24, hard} and the
\* empty hand is {0, hard}.
C2_HandValueIsReference ==
    hvOut # << >> => hvOut[1] = RefHandValue(hvIn)

\* the dealer's first two cards are an ace and a six
DealerSoft17 ==
    /\ Len(dealerHand) >= 2
    /\ {dealerHand[1].rank, dealerHand[2].rank} = {1, 6}

\* C3 (as claimed): a dealer dealt ace and six has drawn at least one more
\* card when the round is over if dealerHitsOnSoft17 is set, and none if not.
C3_DealerHitsSoft17 ==
    (phase = "ROUND_OVER" /\ DealerSoft17)
       => IF options.dealerHitsOnSoft17 THEN Len(dealerHand) >= 3
          ELSE Len(dealerHand) = 2

\* C4 (as claimed): getState() in phase BETTING, that is after resetGame() or
\* construction, returns a snapshot with phase BETTING and no hands.
C4_SnapshotAfterReset ==
    (lastCall.op = "getState" /\ phase = "BETTING")
       => /\ err = "none"
          /\ snap # << >>
          /\ snap[1].phase = "BETTING"
          /\ snap[1].playerHands = << >>
          /\ snap[1].dealerHand = << >>

\* C5 (as claimed): no write of the caller to a snapshot, or to a card object
\* the snapshot leads to, changes the engine's state.
C5_SnapshotIsIndependent ==
    [][(Called("write snapshot card") \/ Called("write snapshot arrays"))
          => UNCHANGED engineVars]_vars

\* C6 (as claimed): startRound with a bet <= 0 throws and starts no round, in
\* any phase.
C6_NonPositiveBetThrows ==
    [][(Called("startRound") /\ lastCall'.arg <= 0)
          => (err' # "none" /\ UNCHANGED engineVars)]_vars

\* C6 (amended): startRound with a bet <= 0 starts no round and changes
\* nothing; it throws in the phases BETTING and ROUND_OVER and returns
\* silently in the phases PLAYER_TURN and DEALER_TURN.
C6_NonPositiveBetStartsNoRound ==
    [][(Called("startRound") /\ lastCall'.arg <= 0)
          => /\ UNCHANGED engineVars
             /\ err' = IF phase \in {"BETTING", "ROUND_OVER"}
                       THEN "Bet amount must be positive." ELSE "none"]_vars

\* C6 witness: startRound(0) has thrown after a round
C6_Witness ==
    /\ lastCall = [op |-> "startRound", arg |-> 0]
    /\ err = "Bet amount must be positive."
    /\ phase = "ROUND_OVER"

\* C7: startRound(bet), bet > 0, called in BETTING or ROUND_OVER leaves one
\* player hand of two cards with that bet and activeHandIndex 0; the hand is
\* ACTIVE, the dealer has two cards and the phase is PLAYER_TURN unless the
\* two cards total 21, and then the hand is BLACKJACK, the dealer has been
\* resolved, the phase is ROUND_OVER and no action is available.
C7_StartRoundDeals ==
    [][(Called("startRound") /\ Starts(lastCall'.arg))
          => /\ Len(playerHands') = 1
             /\ Len(playerHands'[1].cards) = 2
             /\ playerHands'[1].bet = lastCall'.arg
             /\ activeHandIndex' = 0
             /\ IF getHandValue(playerHands'[1].cards).value # 21
                THEN /\ playerHands'[1].status = "ACTIVE"
                     /\ Len(dealerHand') = 2
                     /\ phase' = "PLAYER_TURN"
                ELSE /\ playerHands'[1].status = "BLACKJACK"
                     /\ Len(dealerHand') >= 2
                     /\ ~DealerDraws(getHandValue(dealerHand'), options)
                     /\ phase' = "ROUND_OVER"
                     /\ getAvailableActions(EngineAfter) = {}]_vars

\* C7 witness: a round has started with a natural blackjack and the dealer
\* has drawn
C7_Witness ==
    /\ lastCall.op = "startRound"
    /\ phase = "ROUND_OVER"
    /\ Len(playerHands) = 1
    /\ playerHands[1].status = "BLACKJACK"
    /\ Len(dealerHand) > 2

\* the step is a split() that was legal and has returned
Splits == Called("split") /\ "SPLIT" \in getAvailableActions(Engine) /\ err' = "none"

\* the card objects the engine's hands hold
HeldIds ==
    {dealerHand[j].id : j \in 1..Len(dealerHand)}
    \cup UNION {{playerHands[i].cards[j].id : j \in 1..Len(playerHands[i].cards)} :
                i \in 1..Len(playerHands)}

\* C8: a legal split() of the hand at index i makes the sequence of hands one
\* longer; the hands at i and i+1 have two cards, the first and the second
\* card of the split hand, each with a fresh card; the new hand at i+1 has the
\* same bet and is ACTIVE; the hands after i move up by one, in order;
\* activeHandIndex is still i and the phase PLAYER_TURN.
C8_SplitInsertsHand ==
    [][Splits =>
         LET i == activeHandIndex + 1
             old == playerHands
             new == playerHands'
         IN /\ Len(new) = Len(old) + 1
            /\ Len(new[i].cards) = 2
            /\ Len(new[i + 1].cards) = 2
            /\ new[i].cards[1] = old[i].cards[1]
            /\ new[i + 1].cards[1] = old[i].cards[2]
            /\ new[i].cards[2].id \notin HeldIds
            /\ new[i + 1].cards[2].id \notin HeldIds
            /\ new[i].cards[2].id # new[i + 1].cards[2].id
            /\ new[i].bet = old[i].bet
            /\ new[i + 1].bet = old[i].bet
            /\ new[i + 1].status = "ACTIVE"
            /\ \A k \in 1..(i - 1) : new[k] = old[k]
            /\ \A k \in (i + 1)..Len(old) : new[k + 1] = old[k]
            /\ activeHandIndex' = activeHandIndex
            /\ phase' = "PLAYER_TURN"]_vars

\* C8 witness: the first of three hands has just been split off the first of
\* two (activeHandIndex never decreases in a round)
C8_Witness ==
    /\ lastCall.op = "split"
    /\ Len(playerHands) = 3
    /\ activeHandIndex = 0
    /\ phase = "PLAYER_TURN"

\* a hand with status BLACKJACK is the round's only hand, of two cards that
\* total 21
BlackjackIsNatural ==
    \A i \in 1..Len(playerHands) :
       playerHands[i].status = "BLACKJACK"
          => /\ Len(playerHands) = 1
             /\ Len(playerHands[i].cards) = 2
             /\ getHandValue(playerHands[i].cards).value = 21

\* C9: a hand with status BLACKJACK is the single opening hand of its round,
\* with two cards that total 21; neither hand a split() leaves is BLACKJACK,
\* and a split hand that totals 21 right after the split is STOOD.
C9_BlackjackOnlyNatural ==
    /\ []BlackjackIsNatural
    /\ [][Splits =>
            LET i == activeHandIndex + 1
                new == playerHands'
            IN /\ new[i].status # "BLACKJACK"
               /\ new[i + 1].status # "BLACKJACK"
               /\ getHandValue(new[i].cards).value = 21
                     => new[i].status = "STOOD"]_vars

\* C9 witness: the hand just split totals 21
C9_Witness ==
    /\ lastCall.op = "split"
    /\ phase = "PLAYER_TURN"
    /\ Len(playerHands) >= 2
    /\ getHandValue(getActiveHand(Engine).cards).value = 21
    /\ getActiveHand(Engine).status = "STOOD"

Min(a, b) == IF a < b THEN a ELSE b

\* The reference set of legal actions of the specification
RefAvailableActions ==
    IF phase # "PLAYER_TURN" THEN {}
    ELSE LET cards == playerHands[activeHandIndex + 1].cards
         IN {"HIT", "STAND"}
            \cup {a \in {"DOUBLE_DOWN"} : Len(cards) = 2}
            \cup {a \in {"SPLIT"} :
                    /\ Len(cards) = 2
                    /\ Min(cards[1].rank, 10) = Min(cards[2].rank, 10)}

\* C10: getAvailableActions() is the reference set: empty outside
\* PLAYER_TURN; else HIT and STAND, DOUBLE_DOWN iff the active hand has two
\* cards, SPLIT iff it has two cards of equal value min(rank, 10); never
\* INSURANCE.
C10_AvailableActionsIsReference ==
    /\ getAvailableActions(Engine) = RefAvailableActions
    /\ "INSURANCE" \notin getAvailableActions(Engine)

\* C10 witness: the active hand is a ten and a king, and may be split
C10_Witness ==
    /\ phase = "PLAYER_TURN"
    /\ Len(getActiveHand(Engine).cards) = 2
    /\ {getActiveHand(Engine).cards[1].rank, getActiveHand(Engine).cards[2].rank}
         = {10, 13}
    /\ "SPLIT" \in getAvailableActions(Engine)

\* The settlement rule of the specification, for one hand against the
\* dealer's final hand
RefResult(hand, dealer) ==
    LET playerTotal == RefHandValue(hand.cards).value
        dealerTotal == RefHandValue(dealer).value
    IN CASE hand.status = "BUST" -> "DEALER_WINS"
         [] hand.status = "BLACKJACK" ->
              (IF Len(dealer) = 2 /\ dealerTotal = 21 THEN "PUSH" ELSE "PLAYER_WINS")
         [] OTHER ->
              (IF dealerTotal > 21 \/ playerTotal > dealerTotal THEN "PLAYER_WINS"
               ELSE IF playerTotal < dealerTotal THEN "DEALER_WINS"
               ELSE "PUSH")

\* C11: when the phase is ROUND_OVER every player hand has the result the
\* settlement rule gives it, whatever the other hands are: DEALER_WINS if it
\* is BUST (even if the dealer is bust too), PUSH or PLAYER_WINS if it is
\* BLACKJACK, else by the totals; none is PENDING.
C11_SettlementRule ==
    phase = "ROUND_OVER"
       => \A i \in 1..Len(playerHands) :
             /\ playerHands[i].result = RefResult(playerHands[i], dealerHand)
             /\ playerHands[i].result # "PENDING"

\* C11 witness: a round is over in which one hand is bust, another is not,
\* and the dealer is bust
C11_Witness ==
    /\ phase = "ROUND_OVER"
    /\ getHandValue(dealerHand).value > 21
    /\ \E i, j \in 1..Len(playerHands) :
          /\ playerHands[i].status = "BUST"
          /\ playerHands[j].status = "STOOD"

\* C12 (as claimed): no call ever draws from an empty shoe, so that none
\* throws "Deck is empty.", because startRound rebuilds a shoe of fewer than
\* numberOfDecks*52/3 cards.
C12_ShoeNeverExhausted ==
    err # "Deck is empty."

\* the changes of this.phase the step makes, in order: pairs <<from, to>>
PhaseChanges ==
    LET seq == <<phase>> \o phaseTrace'
    IN {<<seq[k], seq[k + 1]>> : k \in {j \in 1..(Len(seq) - 1) : seq[j] # seq[j + 1]}}

CycleEdges ==
    {<<"BETTING", "PLAYER_TURN">>, <<"PLAYER_TURN", "DEALER_TURN">>,
     <<"DEALER_TURN", "ROUND_OVER">>, <<"ROUND_OVER", "BETTING">>}

\* C13 (as claimed): every change of the phase, those inside one call
\* included, is an edge of the cycle BETTING -> PLAYER_TURN -> DEALER_TURN ->
\* ROUND_OVER -> BETTING.
C13_PhaseFollowsCycle ==
    [][phaseTrace' # phaseTrace => PhaseChanges \subseteq CycleEdges]_vars

\* C13 (amended): every change of the phase, those inside one call included,
\* is BETTING -> PLAYER_TURN or ROUND_OVER -> PLAYER_TURN, made by startRound;
\* PLAYER_TURN -> DEALER_TURN or DEALER_TURN -> ROUND_OVER, made by the call
\* that ends the player's turn; or a change from any phase to BETTING, made by
\* resetGame.
C13_PhaseChanges ==
    [][\A e \in PhaseChanges :
          \/ /\ e \in {<<"BETTING", "PLAYER_TURN">>, <<"ROUND_OVER", "PLAYER_TURN">>}
             /\ Called("startRound")
          \/ /\ e \in {<<"PLAYER_TURN", "DEALER_TURN">>, <<"DEALER_TURN", "ROUND_OVER">>}
             /\ \/ Called("startRound") \/ Called("hit")
                \/ Called("stand") \/ Called("doubleDown")
          \/ /\ e[2] = "BETTING"
             /\ Called("resetGame")]_vars

\* C13 witness: the second round of a shoe has begun with a natural
\* blackjack, so that startRound, called in ROUND_OVER, went through
\* PLAYER_TURN and DEALER_TURN to ROUND_OVER
C13_Witness ==
    /\ lastCall.op = "startRound"
    /\ phaseTrace = <<"PLAYER_TURN", "DEALER_TURN", "ROUND_OVER">>
    /\ DeckLength(deck) + Len(dealerHand) + 2 < DeckLength(createNewDeck(options))

\* the step is a legal stand() or doubleDown(), or a legal hit() that busts
\* the active hand, and the call has returned
EndsHand ==
    /\ err' = "none"
    /\ \/ Called("stand") /\ "STAND" \in getAvailableActions(Engine)
       \/ Called("doubleDown") /\ "DOUBLE_DOWN" \in getAvailableActions(Engine)
       \/ /\ Called("hit") /\ "HIT" \in getAvailableActions(Engine)
          /\ getHandValue(playerHands'[activeHandIndex + 1].cards).value > 21

\* no player hand is ACTIVE
AllHandsFinished ==
    \A i \in 1..Len(playerHands) :
       playerHands[i].status \in {"STOOD", "BUST", "BLACKJACK"}

\* C14: a hit that busts, a stand or a double-down makes the first ACTIVE
\* hand at an index greater than the old activeHandIndex the active hand,
\* the hands keeping their places; the dealer is resolved only if there is
\* no such hand, and whenever the dealer is being or has been resolved (the
\* phases DEALER_TURN and ROUND_OVER) no player hand at any index is ACTIVE.
C14_NextActiveHand ==
    /\ [](phase \in {"DEALER_TURN", "ROUND_OVER"} => AllHandsFinished)
    /\ [][EndsHand =>
            LET later == {k \in 1..Len(playerHands') :
                            /\ k > activeHandIndex + 1
                            /\ playerHands'[k].status = "ACTIVE"}
            IN /\ Len(playerHands') = Len(playerHands)
               /\ \A k \in 1..Len(playerHands) :
                     k # activeHandIndex + 1
                        => /\ playerHands'[k].cards = playerHands[k].cards
                           /\ playerHands'[k].status = playerHands[k].status
                           /\ playerHands'[k].bet = playerHands[k].bet
               /\ IF later # {}
                  THEN /\ phase' = "PLAYER_TURN"
                       /\ activeHandIndex' + 1 \in later
                       /\ \A k \in later : activeHandIndex' + 1 <= k
                  ELSE phase' = "ROUND_OVER"]_vars

\* C14 witness: stand() on the first of three hands has made the second the
\* active hand, the third being ACTIVE too
C14_Witness ==
    /\ lastCall.op = "stand"
    /\ phase = "PLAYER_TURN"
    /\ Len(playerHands) = 3
    /\ activeHandIndex = 1
    /\ playerHands[1].status = "STOOD"
    /\ playerHands[2].status = "ACTIVE"
    /\ playerHands[3].status = "ACTIVE"

\* the step is a doubleDown() that was legal and has returned
Doubles ==
    /\ Called("doubleDown")
    /\ "DOUBLE_DOWN" \in getAvailableActions(Engine)
    /\ err' = "none"

\* C15: a legal doubleDown() doubles the bet of the active hand once, adds
\* one card to it, a card no hand held, and leaves it BUST if its total
\* exceeds 21 and STOOD if not; the other hands keep their cards, bets and
\* statuses; the turn advances to a later hand or to the dealer's resolution.
\* No call but startRound and resetGame moves activeHandIndex back or changes
\* the cards of a hand before the active one, or of any hand once the
\* player's turn is over: the doubled hand gets no further card in the round.
C15_DoubleDown ==
    /\ [][Doubles =>
            LET i == activeHandIndex + 1
                old == playerHands[i]
                new == playerHands'[i]
            IN /\ new.bet = 2 * old.bet
               /\ Len(new.cards) = Len(old.cards) + 1
               /\ SubSeq(new.cards, 1, Len(old.cards)) = old.cards
               /\ new.cards[Len(new.cards)].id \notin HeldIds
               /\ DeckLength(deck) - DeckLength(deck')
                     = 1 + Len(dealerHand') - Len(dealerHand)
               /\ new.status = IF RefHandValue(new.cards).value > 21
                               THEN "BUST" ELSE "STOOD"
               /\ Len(playerHands') = Len(playerHands)
               /\ \A k \in 1..Len(playerHands) :
                     k # i => /\ playerHands'[k].cards = playerHands[k].cards
                              /\ playerHands'[k].bet = playerHands[k].bet
                              /\ playerHands'[k].status = playerHands[k].status
               /\ \/ phase' = "PLAYER_TURN" /\ activeHandIndex' > activeHandIndex
                  \/ phase' = "ROUND_OVER"]_vars
    /\ [][~(Called("startRound") \/ Called("resetGame")) =>
            /\ activeHandIndex' >= activeHandIndex
            /\ \A k \in 1..Len(playerHands) :
                  (k < activeHandIndex + 1 \/ phase # "PLAYER_TURN")
                     => /\ k <= Len(playerHands')
                        /\ playerHands'[k].cards = playerHands[k].cards]_vars

\* C15 witness: the first of two hands has been doubled and stands with
\* three cards, and the turn is the second hand's
C15_Witness ==
    /\ lastCall.op = "doubleDown"
    /\ err = "none"
    /\ phase = "PLAYER_TURN"
    /\ Len(playerHands) = 2
    /\ activeHandIndex = 1
    /\ Len(playerHands[1].cards) = 3
    /\ playerHands[1].status = "STOOD"
    /\ playerHands[1].bet = 2 * playerHands[2].bet

\* the card objects the engine's hands hold after the step
HeldIdsAfter ==
    {dealerHand'[j].id : j \in 1..Len(dealerHand')}
    \cup UNION {{playerHands'[i].cards[j].id : j \in 1..Len(playerHands'[i].cards)} :
                i \in 1..Len(playerHands')}

FullShoe == options.numberOfDecks * PackSize

\* C16: resetGame leaves a full shoe.  A startRound that starts a round
\* deals from a full shoe if fewer than numberOfDecks*52/3 cards were left
\* when it was called, and from the shoe as it was if not.  No other call
\* rebuilds the shoe: it takes cards out of it, one for each card that it
\* puts in a hand, and puts none in.
C16_ShoeRebuiltAtRoundStart ==
    /\ [](DeckLength(deck) <= FullShoe)
    /\ [][Called("resetGame") => DeckLength(deck') = FullShoe]_vars
    /\ [][(Called("startRound") /\ Starts(lastCall'.arg)) =>
            LET dealtNow == Len(playerHands'[1].cards) + Len(dealerHand')
            IN IF 3 * DeckLength(deck) < FullShoe
               THEN DeckLength(deck') = FullShoe - dealtNow
               ELSE /\ DeckLength(deck') = DeckLength(deck) - dealtNow
                    /\ \A r \in Ranks : deck'[r] <= deck[r]]_vars
    /\ [][~(Called("resetGame") \/ (Called("startRound") /\ Starts(lastCall'.arg))) =>
            /\ \A r \in Ranks : deck'[r] <= deck[r]
            /\ DeckLength(deck) - DeckLength(deck')
                  = Cardinality(HeldIdsAfter \ HeldIds)]_vars

\* C16 witness: a round has been started on the 18 cards left of a pack of
\* 52, which is not below the threshold of 17 1/3, and four of them dealt
C16_Witness ==
    /\ lastCall = [op |-> "startRound", arg |-> 1]
    /\ phase = "PLAYER_TURN"
    /\ options.numberOfDecks = 1
    /\ DeckLength(deck) = 14
    /\ Len(playerHands) = 1
    /\ Len(playerHands[1].cards) = 2

RECURSIVE CardsIn(_, _)
\* the number of cards in the first n player hands
CardsIn(hands, n) ==
    IF n = 0 THEN 0 ELSE Len(hands[n].cards) + CardsIn(hands, n - 1)

\* every card object is in one place: no two places of the hands hold the
\* same object, and none of them holds an object that is still in the shoe
\* (the shoe holds the objects <<r, 1>> .. <<r, deck[r]>> of each rank r)
InOneContainer ==
    /\ Cardinality(HeldIds) = CardsIn(playerHands, Len(playerHands)) + Len(dealerHand)
    /\ \A id \in HeldIds : id[2] > deck[id[1]]

\* C17 (as claimed): every card is in at most one container, and no call
\* made during a round changes the number of cards in the shoe and the hands
\* together: it is the number the shoe had when the round's dealing began,
\* and split moves a card without losing it.
C17_CardsConserved ==
    /\ []InOneContainer
    /\ [][~(Called("resetGame") \/ (Called("startRound") /\ Starts(lastCall'.arg))) =>
            DeckLength(deck') + CardsIn(playerHands', Len(playerHands')) + Len(dealerHand')
               = DeckLength(deck) + CardsIn(playerHands, Len(playerHands)) + Len(dealerHand)]_vars
    /\ [][(Called("startRound") /\ Starts(lastCall'.arg)) =>
            DeckLength(deck') + CardsIn(playerHands', Len(playerHands')) + Len(dealerHand')
               = IF BelowReshuffleThreshold(Engine) THEN FullShoe ELSE DeckLength(deck)]_vars

\* the place after the step of the hand that is at place k before it: a
\* split() that returns moves the hands after the active one up by one
PlaceAfter(k) ==
    IF Len(playerHands') = Len(playerHands) + 1 /\ k > activeHandIndex + 1
    THEN k + 1 ELSE k

\* C19 (as claimed): during the player's turn the hand at activeHandIndex is
\* ACTIVE, and no call of a round changes the cards, the bet or the status
\* of a hand that is STOOD, BUST or BLACKJACK.
C19_FinishedHandsFrozen ==
    /\ [](phase = "PLAYER_TURN" => getActiveHand(Engine).status = "ACTIVE")
    /\ [][~(Called("resetGame") \/ (Called("startRound") /\ Starts(lastCall'.arg))) =>
            \A k \in 1..Len(playerHands) :
               playerHands[k].status \in {"STOOD", "BUST", "BLACKJACK"}
                  => /\ PlaceAfter(k) <= Len(playerHands')
                     /\ playerHands'[PlaceAfter(k)].cards = playerHands[k].cards
                     /\ playerHands'[PlaceAfter(k)].bet = playerHands[k].bet
                     /\ playerHands'[PlaceAfter(k)].status = playerHands[k].status]_vars

\* C20 (as claimed): a call that throws "Deck is empty." leaves the player
\* hands, the dealer hand, activeHandIndex, the phase and the shoe as they
\* were before the call.
C20_ExhaustionIsAtomic ==
    [][(lastCall'.op \in {"hit", "doubleDown", "split", "stand", "startRound"}
          /\ err' = "Deck is empty.")
         => UNCHANGED engineVars]_vars

----------------------------------------------------------------------------
(* C18 *)

DealerResolved ==
    /\ err = "none"
    /\ phase = "ROUND_OVER"
    /\ getHandValue(dealerHand).value >= 17

\* C18: a dealer resolution that has started ends: the call in the loop of
\* resolveDealerTurn eventually returns in ROUND_OVER with a dealer total of
\* 17 or more, or throws "Deck is empty."
C18_DealerResolutionEnds ==
    (err = "running") ~> (DealerResolved \/ err = "Deck is empty.")

\* a resolution in which the dealer drew twice has ended
C18_Witness ==
    /\ DealerResolved
    /\ lastCall.op \in {"hit", "stand", "doubleDown"}
    /\ Len(dealerHand) >= 4

====
